---------------------------- MODULE Spec2Model ----------------------------
(***************************************************************************)
(* Model of the API attack-surface analyzer:                               *)
(*   core/swagger_parser.py  SwaggerParser.fetch_swagger/extract_endpoints *)
(*   core/analyzer.py        AttackSurfaceAnalyzer.enrich_endpoint/analyze *)
(*   core/llm_engine.py      LLMEngine.analyze_endpoint/analyze_global     *)
(*   main.py                 run_analysis                                  *)
(*                                                                         *)
(* Python values are tagged records [t |-> <type name>, v |-> <payload>].  *)
(* A str is a TLA+ string, a list a sequence, and a dict a sequence of     *)
(* <<key, value>> pairs in insertion order (Python dicts iterate in        *)
(* insertion order, json.loads keeps the document's order).  A call        *)
(* yields [exc |-> "none", ret |-> value] when it returns and              *)
(* [exc |-> <exception class>] when it raises.                             *)
(***************************************************************************)
EXTENDS Integers, Sequences, FiniteSets, TLC

VARIABLES
    pc,                 \* position of the caller (run_analysis or an API user)
    entry,              \* who built the analyzer's list: "none", "run_analysis", "analyzer"
    swagger_data,       \* SwaggerParser.swagger_data
    fetch_ok,           \* what fetch_swagger returned
    endpoints,          \* the list extract_endpoints returned / AttackSurfaceAnalyzer.endpoints
    given,              \* the list as it was handed to the analyzer (history variable)
    idx,                \* analyze: position of the for loop over self.endpoints
    enriched,           \* analyze: the local `enriched` of the last iteration (a call result)
    enriched_endpoints, \* analyze: the list being built, then returned
    exc,                \* the exception that left the last call, "none" when it returned
    llm_pc,             \* position inside the LLM phase of run_analysis and LLMEngine
    llm_call,           \* the LLMEngine method under way or last called
    llm_idx,            \* run_analysis: position of the for loop over enriched_endpoints
    reply,              \* what the model service answered to the last request
    llm_content,        \* _call_model: the local `content`, the text of _safe_json_parse
    stages,             \* the stages of _safe_json_parse gone through (history variable)
    llm_result          \* what the last LLMEngine call returned (a call result)

\* the variables of the LLM phase
llm_vars == <<llm_pc, llm_call, llm_idx, reply, llm_content, stages, llm_result>>

\* the variables of the scan the LLM phase leaves alone
scan_vars == <<entry, swagger_data, fetch_ok, endpoints, given, idx, enriched,
               enriched_endpoints>>

vars == <<pc, entry, swagger_data, fetch_ok, endpoints, given, idx, enriched,
          enriched_endpoints, exc, llm_pc, llm_call, llm_idx, reply,
          llm_content, stages, llm_result>>

---------------------------------------------------------------------------
(* Bounds of the model. *)

\* longest list of routes handed directly to AttackSurfaceAnalyzer
MaxRoutes == 3

\* most path entries of a generated specification document
MaxPaths == 2

---------------------------------------------------------------------------
(* Python values. *)

None == [t |-> "NoneType"]

PyStr(s) == [t |-> "str", v |-> s]

PyBool(b) == [t |-> "bool", v |-> b]

PyInt(n) == [t |-> "int", v |-> n]

PyList(q) == [t |-> "list", v |-> q]

PyDict(q) == [t |-> "dict", v |-> q]

IsStr(x) == x.t = "str"

IsDict(x) == x.t = "dict"

\* bool(x): None, False, 0, "", [] and {} are false, everything else true
Truthy(x) ==
    CASE x.t = "NoneType" -> FALSE
      [] x.t = "bool" -> x.v
      [] x.t = "int" -> x.v # 0
      [] x.t = "str" -> x.v # ""
      [] OTHER -> Len(x.v) > 0

Returned(value) == [exc |-> "none", ret |-> value]

Raised(e) == [exc |-> e]

\* an exception with the text str(exc) gives
RaisedWith(e, msg) == [exc |-> e, msg |-> msg]

\* key in d
HasKey(d, k) == \E i \in 1..Len(d.v) : d.v[i][1] = k

\* d.get(k, default)
DictGet(d, k, default) ==
    IF HasKey(d, k)
    THEN d.v[CHOOSE i \in 1..Len(d.v) : d.v[i][1] = k][2]
    ELSE default

\* d[k] = value: an existing key keeps its position, a new key goes last
DictSetItem(d, k, value) ==
    IF HasKey(d, k)
    THEN PyDict([i \in 1..Len(d.v) |->
                    IF d.v[i][1] = k THEN <<k, value>> ELSE d.v[i]])
    ELSE PyDict(Append(d.v, <<k, value>>))

\* d.keys(), as a set
Keys(d) == {d.v[i][1] : i \in 1..Len(d.v)}

---------------------------------------------------------------------------
(* str methods and the regular expression of the analyzer. *)

UpperLetters == "ABCDEFGHIJKLMNOPQRSTUVWXYZ"

LowerLetters == "abcdefghijklmnopqrstuvwxyz"

CharAt(s, i) == SubSeq(s, i, i)

LetterIndex(letters, c) ==
    IF \E i \in 1..Len(letters) : CharAt(letters, i) = c
    THEN CHOOSE i \in 1..Len(letters) : CharAt(letters, i) = c
    ELSE 0

\* str.upper() and str.lower(), on the characters the model draws (ASCII)
UpperChar(c) ==
    IF LetterIndex(LowerLetters, c) # 0
    THEN CharAt(UpperLetters, LetterIndex(LowerLetters, c))
    ELSE c

LowerChar(c) ==
    IF LetterIndex(UpperLetters, c) # 0
    THEN CharAt(LowerLetters, LetterIndex(UpperLetters, c))
    ELSE c

RECURSIVE upper(_)
upper(s) == IF s = "" THEN "" ELSE UpperChar(Head(s)) \o upper(Tail(s))

RECURSIVE lower(_)
lower(s) == IF s = "" THEN "" ELSE LowerChar(Head(s)) \o lower(Tail(s))

\* sub in s
Contains(s, sub) ==
    \E i \in 1..(Len(s) - Len(sub) + 1) : SubSeq(s, i, i + Len(sub) - 1) = sub

\* the first position >= from of character c in s, 0 when there is none
Find(s, c, from) ==
    IF \E j \in from..Len(s) : CharAt(s, j) = c
    THEN CHOOSE j \in from..Len(s) :
            /\ CharAt(s, j) = c
            /\ \A k \in from..(j - 1) : CharAt(s, k) # c
    ELSE 0

\* re.findall(r"\{(.*?)\}", path), scanning from position pos.  At a "{" the
\* lazy .*? takes characters up to the next "}"; "." matches no line feed, so
\* the attempt fails when one comes first, and the scan goes on one character
\* further.  After a match the scan resumes behind its "}".
RECURSIVE findall(_, _)
findall(path, pos) ==
    IF pos > Len(path) THEN <<>>
    ELSE LET close == Find(path, "}", pos + 1)
             body == SubSeq(path, pos + 1, close - 1)
         IN  IF CharAt(path, pos) = "{" /\ close # 0 /\ ~Contains(body, "\n")
             THEN <<body>> \o findall(path, close + 1)
             ELSE findall(path, pos + 1)

---------------------------------------------------------------------------
(* core/analyzer.py: AttackSurfaceAnalyzer. *)

STATE_CHANGING_METHODS == {"POST", "PUT", "PATCH", "DELETE"}

IDENTIFIER_KEYWORDS ==
    {"id", "user", "account", "org", "order", "tenant", "customer",
     "username", "email"}

NUMERIC_TYPES == {"number", "integer", "float"}

\* variant of method_of that compares the method as written, without upper()
method_of_noupper(endpoint) ==
    LET m == DictGet(endpoint, "method", PyStr(""))
    IN  IF IsStr(m) THEN Returned(m.v) ELSE Raised("AttributeError")

\* method = endpoint.get("method", "").upper(): a value that is no str has
\* no upper() and the call raises AttributeError
method_of(endpoint) ==
    LET m == DictGet(endpoint, "method", PyStr(""))
    IN  IF IsStr(m) THEN Returned(upper(m.v)) ELSE Raised("AttributeError")

\* rule 1: if method in self.STATE_CHANGING_METHODS
state_change_rule(method, signals) ==
    IF method \in STATE_CHANGING_METHODS
    THEN Append(signals, "state_change")
    ELSE signals

\* any(keyword in param.lower() for keyword in self.IDENTIFIER_KEYWORDS)
has_keyword(param) == \E keyword \in IDENTIFIER_KEYWORDS : Contains(lower(param), keyword)

\* variant of identifier_loop without the break: one signal per matching
\* placeholder
RECURSIVE identifier_loop_nobreak(_, _)
identifier_loop_nobreak(dynamic_params, signals) ==
    IF dynamic_params = <<>> THEN signals
    ELSE identifier_loop_nobreak(Tail(dynamic_params),
            IF has_keyword(Head(dynamic_params))
            THEN Append(signals, "object_identifier")
            ELSE signals)

\* rule 2: the for loop over dynamic_params, left by break at the first match
RECURSIVE identifier_loop(_, _)
identifier_loop(dynamic_params, signals) ==
    IF dynamic_params = <<>> THEN signals
    ELSE IF has_keyword(Head(dynamic_params))
         THEN Append(signals, "object_identifier")
         ELSE identifier_loop(Tail(dynamic_params), signals)

\* iter(x) of a for loop: a list gives its items, a str its characters, a
\* dict its keys; None, a bool or an int is not iterable (TypeError)
Iterate(x) ==
    CASE x.t = "list" -> Returned(x.v)
      [] x.t = "str" -> Returned([i \in 1..Len(x.v) |-> PyStr(CharAt(x.v, i))])
      [] x.t = "dict" -> Returned([i \in 1..Len(x.v) |-> PyStr(x.v[i][1])])
      [] OTHER -> Raised("TypeError")

\* rule 3: the for loop over parameters, left by break at the first numeric
\* type.  param.get needs a dict and .lower() a str: anything else raises
\* AttributeError.  Items behind the break are never looked at.
RECURSIVE numeric_loop(_, _)
numeric_loop(items, signals) ==
    IF items = <<>> THEN Returned(signals)
    ELSE LET param == Head(items) IN
         IF ~IsDict(param) THEN Raised("AttributeError")
         ELSE LET param_type == DictGet(param, "type", PyStr("")) IN
              IF ~IsStr(param_type) THEN Raised("AttributeError")
              ELSE IF lower(param_type.v) \in NUMERIC_TYPES
                   THEN Returned(Append(signals, "numeric_input"))
                   ELSE numeric_loop(Tail(items), signals)

\* rule 4: if "admin" in path.lower()
admin_rule(path, signals) ==
    IF Contains(lower(path), "admin")
    THEN Append(signals, "admin_route")
    ELSE signals

\* rule 5: if endpoint.get("auth_required")
auth_rule(endpoint, signals) ==
    IF Truthy(DictGet(endpoint, "auth_required", None))
    THEN Append(signals, "authenticated_endpoint")
    ELSE signals

\* the list object assigned to enriched["risk_signals"]
signal_list(signals) == PyList([i \in 1..Len(signals) |-> PyStr(signals[i])])

\* variant of dict_copy that copies nothing: enriched = endpoint, an alias
dict_alias(heap, ref) == [heap |-> heap, ref |-> ref]

\* Objects are cells of a small heap so that a write through one reference
\* is seen through every alias.  endpoint.copy() allocates a new dict with
\* the same items (a shallow copy) and gives the reference of the new cell.
dict_copy(heap, ref) == [heap |-> Append(heap, heap[ref]), ref |-> Len(heap) + 1]

\* variant of build_enriched that also rates the signals and stores the
\* verdict in enriched["severity"]
build_enriched_with_severity(endpoint, signals) ==
    LET c == dict_copy(<<endpoint>>, 1)
        sev == IF \E i \in 1..Len(signals) :
                     signals[i] \in {"state_change", "admin_route", "object_identifier"}
               THEN "HIGH" ELSE "LOW"
        h == [c.heap EXCEPT ![c.ref] =
                 DictSetItem(DictSetItem(@, "risk_signals", signal_list(signals)),
                             "severity", PyStr(sev))]
    IN  [exc |-> "none", ret |-> h[c.ref], arg |-> h[1]]

\* enriched = endpoint.copy(); enriched["risk_signals"] = signals; return enriched
\* The result names what the call returned and what the argument object
\* holds when the call is over.
build_enriched(endpoint, signals) ==
    LET c == dict_copy(<<endpoint>>, 1)
        h == [c.heap EXCEPT ![c.ref] = DictSetItem(@, "risk_signals", signal_list(signals))]
    IN  [exc |-> "none", ret |-> h[c.ref], arg |-> h[1]]

\* a call that raised: nothing was written before the raise
Abort(e, endpoint) == [exc |-> e, arg |-> endpoint]

\* AttackSurfaceAnalyzer.enrich_endpoint(endpoint)
enrich_endpoint(endpoint) ==
    IF ~IsDict(endpoint) THEN Abort("AttributeError", endpoint)
    ELSE
    LET m == method_of(endpoint)
        path == DictGet(endpoint, "path", PyStr(""))
        parameters == DictGet(endpoint, "parameters", PyList(<<>>))
    IN
    IF m.exc # "none" THEN Abort(m.exc, endpoint)
    ELSE
    LET s1 == state_change_rule(m.ret, <<>>) IN
    \* re.findall on a value that is no str raises TypeError
    IF ~IsStr(path) THEN Abort("TypeError", endpoint)
    ELSE
    LET dynamic_params == findall(path.v, 1)
        s2 == identifier_loop(dynamic_params, s1)
        items == Iterate(parameters)
    IN
    IF items.exc # "none" THEN Abort(items.exc, endpoint)
    ELSE
    LET n == numeric_loop(items.ret, s2) IN
    IF n.exc # "none" THEN Abort(n.exc, endpoint)
    ELSE
    LET s4 == admin_rule(path.v, n.ret)
        s5 == auth_rule(endpoint, s4)
    IN  build_enriched(endpoint, s5)

\* enriched["risk_signals"] of a returned finding, as a sequence of strings
risk_signals(finding) ==
    LET l == DictGet(finding, "risk_signals", PyList(<<>>))
    IN  [i \in 1..Len(l.v) |-> l.v[i].v]

\* variant of collect that puts a kept finding first instead of last
collect_front(found, finding) ==
    IF Truthy(DictGet(finding, "risk_signals", None))
    THEN <<finding>> \o found
    ELSE found

\* analyze, lines 87-89: only keep endpoints that have signals
collect(found, finding) ==
    IF Truthy(DictGet(finding, "risk_signals", None))
    THEN Append(found, finding)
    ELSE found

---------------------------------------------------------------------------
(* The route records the analyzer is run on. *)

\* a parameter record as extract_endpoints builds it (name, in, type, required)
Param(name, type) ==
    PyDict(<< <<"name", PyStr(name)>>, <<"in", PyStr("query")>>,
              <<"type", type>>, <<"required", PyBool(FALSE)>> >>)

\* an endpoint record as extract_endpoints builds it, lines 68-74
Route(method, path, parameters, auth) ==
    PyDict(<< <<"path", path>>, <<"method", method>>,
              <<"parameters", parameters>>, <<"auth_required", auth>>,
              <<"description", PyStr("")>> >>)

\* del d[k]
DictWithout(d, k) ==
    LET keep == {i \in 1..Len(d.v) : d.v[i][1] # k}
        Rank(i) == Cardinality({j \in keep : j <= i})
    IN  PyDict([n \in 1..Cardinality(keep) |-> d.v[CHOOSE i \in keep : Rank(i) = n]])

MethodInputs ==
    {"GET", "HEAD", "OPTIONS", "POST", "post", "Put", "PATCH", "delete", "POSTS", ""}

PathInputs ==
    {"", "/health", "/users/{id}", "/users/{ID}", "/u/{userId}/o/{orderId}",
     "/x/{}", "/x/{a}{b}", "/x/{a}{id}", "/x/{i}{d}", "/{a}/id/{b}", "/x/{valid}",
     "/x/{slug}", "/x/{id", "/x/id}", "/x/{{id}", "/x/{id\n}", "/x/{\n}{Email}",
     "/admin/reports", "/Admin", "/x/{administrator}",
     "/admin/{userId}/{accountId}"}

ParameterInputs ==
    {<<>>,
     <<Param("verbose", PyStr("boolean"))>>,
     <<Param("qty", PyStr("integer"))>>,
     <<Param("qty", PyStr("Number"))>>,
     <<Param("q", PyStr("string")), Param("n", PyStr("float"))>>,
     <<Param("a", PyStr("integer")), Param("a", PyStr("number"))>>,
     <<Param("u", PyStr("unknown"))>>,
     <<DictWithout(Param("u", PyStr("")), "type")>>}

\* records of the shape the data model declares
WellFormedRoutes ==
    {Route(PyStr(m), PyStr(p), PyList(ps), PyBool(a)) :
        m \in MethodInputs, p \in PathInputs, ps \in ParameterInputs, a \in BOOLEAN}

BaseRoute ==
    Route(PyStr("DELETE"), PyStr("/orders/{orderId}"),
          PyList(<<Param("qty", PyStr("integer"))>>), PyBool(TRUE))

\* records in which one field is absent, null or of another type
MalformedRoutes ==
    {DictWithout(BaseRoute, k) :
        k \in {"method", "path", "parameters", "auth_required", "description"}}
    \cup {DictSetItem(BaseRoute, "method", x) : x \in {None, PyInt(5)}}
    \cup {DictSetItem(BaseRoute, "path", x) : x \in {None, PyInt(5)}}
    \cup {DictSetItem(BaseRoute, "parameters", x) :
            x \in {None, PyInt(5), PyStr(""), PyStr("ab"), PyDict(<<>>),
                   PyList(<<None>>),
                   PyList(<<Param("qty", None)>>),
                   PyList(<<Param("qty", PyInt(5))>>),
                   PyList(<<Param("qty", PyList(<<PyStr("integer"), PyStr("null")>>))>>),
                   PyList(<<Param("qty", PyStr("integer")), None>>)}}
    \cup {DictSetItem(BaseRoute, "auth_required", x) :
            x \in {None, PyInt(0), PyInt(1), PyStr("yes"), PyList(<<>>)}}

\* the routes that lists of several routes are made of
CoreRoutes ==
    {Route(PyStr("GET"), PyStr("/health"), PyList(<<>>), PyBool(FALSE)),
     Route(PyStr("GET"), PyStr("/status"),
           PyList(<<Param("verbose", PyStr("boolean"))>>), PyBool(TRUE)),
     Route(PyStr("GET"), PyStr("/users/{id}"), PyList(<<>>), PyBool(FALSE)),
     Route(PyStr("GET"), PyStr("/admin/reports"), PyList(<<>>), PyBool(FALSE)),
     BaseRoute,
     DictSetItem(BaseRoute, "method", None)}

SeqsUpTo(S, n) == UNION {[1..k -> S] : k \in 0..n}

RouteLists ==
    SeqsUpTo(CoreRoutes, MaxRoutes)
    \cup {<<r>> : r \in WellFormedRoutes \cup MalformedRoutes}

---------------------------------------------------------------------------
(* core/swagger_parser.py: SwaggerParser. *)

VERBS == {"get", "post", "put", "patch", "delete", "options", "head"}

\* SwaggerParser.fetch_swagger (lines 22-47) on the outcome of requests.get.
\* A connection failure or timeout, a 4xx/5xx status (raise_for_status) and
\* a body that is no JSON all raise inside the try and are caught: the
\* method returns False and swagger_data keeps its value.  Otherwise
\* swagger_data is the decoded JSON value, of whatever type.
fetch_swagger(response, old_data) ==
    IF response.error # "none" THEN [ok |-> FALSE, data |-> old_data]
    ELSE IF response.status >= 400 THEN [ok |-> FALSE, data |-> old_data]
    ELSE IF ~response.is_json THEN [ok |-> FALSE, data |-> old_data]
    ELSE [ok |-> TRUE, data |-> response.json]

\* lines 77-85: the for loop over details.get("parameters", [])
RECURSIVE parameters_loop(_, _)
parameters_loop(items, parameters) ==
    IF items = <<>> THEN Returned(parameters)
    ELSE LET param == Head(items) IN
         IF ~IsDict(param) THEN Raised("AttributeError")
         ELSE LET schema == DictGet(param, "schema", PyDict(<<>>)) IN
              IF ~IsDict(schema) THEN Raised("AttributeError")
              ELSE parameters_loop(Tail(items),
                     Append(parameters,
                        PyDict(<< <<"name", DictGet(param, "name", None)>>,
                                  <<"in", DictGet(param, "in", None)>>,
                                  <<"type", DictGet(schema, "type", PyStr("unknown"))>>,
                                  <<"required", DictGet(param, "required", PyBool(FALSE))>> >>)))

\* prop_name in schema.get("required", []): membership in a list, substring
\* of a str, key of a dict; None, a bool or an int raises TypeError
in_required(prop_name, required) ==
    CASE required.t = "list" ->
            Returned(\E i \in 1..Len(required.v) : required.v[i] = PyStr(prop_name))
      [] required.t = "str" -> Returned(Contains(required.v, prop_name))
      [] required.t = "dict" -> Returned(HasKey(required, prop_name))
      [] OTHER -> Raised("TypeError")

\* lines 96-104: the for loop over properties.items()
RECURSIVE properties_loop(_, _, _)
properties_loop(items, schema, parameters) ==
    IF items = <<>> THEN Returned(parameters)
    ELSE LET prop_name == Head(items)[1]
             prop_details == Head(items)[2]
         IN
         IF ~IsDict(prop_details) THEN Raised("AttributeError")
         ELSE LET req == in_required(prop_name, DictGet(schema, "required", PyList(<<>>))) IN
              IF req.exc # "none" THEN req
              ELSE properties_loop(Tail(items), schema,
                     Append(parameters,
                        PyDict(<< <<"name", PyStr(prop_name)>>,
                                  <<"in", PyStr("body")>>,
                                  <<"type", DictGet(prop_details, "type", PyStr("unknown"))>>,
                                  <<"required", PyBool(req.ret)>> >>)))

\* lines 92-104: the for loop over content.values()
RECURSIVE content_loop(_, _)
content_loop(items, parameters) ==
    IF items = <<>> THEN Returned(parameters)
    ELSE LET media_type == Head(items)[2] IN
         IF ~IsDict(media_type) THEN Raised("AttributeError")
         ELSE LET schema == DictGet(media_type, "schema", PyDict(<<>>)) IN
              IF ~IsDict(schema) THEN Raised("AttributeError")
              ELSE LET properties == DictGet(schema, "properties", PyDict(<<>>)) IN
                   IF ~IsDict(properties) THEN Raised("AttributeError")
                   ELSE LET r == properties_loop(properties.v, schema, parameters) IN
                        IF r.exc # "none" THEN r
                        ELSE content_loop(Tail(items), r.ret)

\* lines 87-104: request body (OpenAPI 3)
request_body_parameters(details, parameters) ==
    LET request_body == DictGet(details, "requestBody", None) IN
    IF ~Truthy(request_body) THEN Returned(parameters)
    ELSE IF ~IsDict(request_body) THEN Raised("AttributeError")
    ELSE LET content == DictGet(request_body, "content", PyDict(<<>>)) IN
         IF ~IsDict(content) THEN Raised("AttributeError")
         ELSE content_loop(content.v, parameters)

\* lines 68-106: the endpoint of one recognised verb key of a path item.
\* Only details is read: nothing of the enclosing path item reaches the
\* endpoint.
build_endpoint(path, method, details, global_security) ==
    IF ~IsDict(details) THEN Raised("AttributeError")
    ELSE
    LET auth == PyBool(Truthy(DictGet(details, "security", global_security)))
        description == DictGet(details, "description", PyStr(""))
        items == Iterate(DictGet(details, "parameters", PyList(<<>>)))
    IN
    IF items.exc # "none" THEN items
    ELSE
    LET ps == parameters_loop(items.ret, <<>>) IN
    IF ps.exc # "none" THEN ps
    ELSE
    LET body == request_body_parameters(details, ps.ret) IN
    IF body.exc # "none" THEN body
    ELSE Returned(PyDict(<< <<"path", PyStr(path)>>,
                            <<"method", PyStr(upper(method))>>,
                            <<"parameters", PyList(body.ret)>>,
                            <<"auth_required", auth>>,
                            <<"description", description>> >>))

\* variant of recognized that tests the key as written, without lower()
recognized_nolower(method) == method \in VERBS

\* lines 63-66: if method.lower() not in {...}: continue
recognized(method) == lower(method) \in VERBS

\* lines 61-106: the for loop over methods.items()
RECURSIVE methods_loop(_, _, _, _)
methods_loop(path, items, global_security, found) ==
    IF items = <<>> THEN Returned(found)
    ELSE LET method == Head(items)[1]
             details == Head(items)[2]
         IN
         IF ~recognized(method)
         THEN methods_loop(path, Tail(items), global_security, found)
         ELSE LET e == build_endpoint(path, method, details, global_security) IN
              IF e.exc # "none" THEN e
              ELSE methods_loop(path, Tail(items), global_security, Append(found, e.ret))

\* lines 60-106: the for loop over paths.items()
RECURSIVE paths_loop(_, _, _)
paths_loop(items, global_security, found) ==
    IF items = <<>> THEN Returned(found)
    ELSE LET path == Head(items)[1]
             methods == Head(items)[2]
         IN
         IF ~IsDict(methods) THEN Raised("AttributeError")
         ELSE LET r == methods_loop(path, methods.v, global_security, found) IN
              IF r.exc # "none" THEN r
              ELSE paths_loop(Tail(items), global_security, r.ret)

\* SwaggerParser.extract_endpoints (lines 49-108).  "if not self.swagger_data"
\* is a test of truth, not of type: a non-empty list, a non-empty str, a
\* non-zero number and True pass it and then have no get().
extract_endpoints(data) ==
    IF ~Truthy(data) THEN Returned(<<>>)
    ELSE IF ~IsDict(data) THEN Raised("AttributeError")
    ELSE
    LET paths == DictGet(data, "paths", PyDict(<<>>))
        global_security == DictGet(data, "security", None)
    IN  IF ~IsDict(paths) THEN Raised("AttributeError")
        ELSE paths_loop(paths.v, global_security, <<>>)

---------------------------------------------------------------------------
(* The responses fetch_swagger may get and the documents they carry. *)

\* a parameter object of a specification document
DocParam(name, where, type) ==
    PyDict(<< <<"name", PyStr(name)>>, <<"in", PyStr(where)>>,
              <<"schema", PyDict(<< <<"type", type>> >>)>> >>)

SecurityRequirement == PyList(<< PyDict(<< <<"apiKey", PyList(<<>>)>> >>) >>)

\* JSON values that are no object, and objects without a usable "paths"
TopLevelDocs ==
    {None, PyBool(TRUE), PyBool(FALSE), PyInt(0), PyInt(7), PyStr(""),
     PyStr("swagger"), PyList(<<>>), PyList(<<PyInt(1)>>), PyDict(<<>>),
     PyDict(<< <<"swagger", PyStr("2.0")>> >>),
     PyDict(<< <<"info", PyDict(<< <<"title", PyStr("api")>> >>)>>,
               <<"security", SecurityRequirement>> >>),
     PyDict(<< <<"paths", PyDict(<<>>)>> >>),
     PyDict(<< <<"paths", None>> >>),
     PyDict(<< <<"paths", PyList(<<>>)>> >>),
     PyDict(<< <<"paths", PyDict(<< <<"/a", None>> >>)>> >>)}

PathKeys == {"", "/users/{id}", "/admin"}

PathLevelParameters == PyList(<<DocParam("id", "path", PyStr("integer"))>>)

PathItems ==
    {PyDict(<< <<"summary", PyStr("text")>>, <<"get", PyDict(<<>>)>> >>),
     PyDict(<< <<"parameters", PathLevelParameters>>,
               <<"get", PyDict(<< <<"parameters",
                    PyList(<<DocParam("q", "query", PyStr("string"))>>)>> >>)>> >>),
     PyDict(<< <<"parameters", PathLevelParameters>>,
               <<"Post", PyDict(<<>>)>> >>),
     PyDict(<< <<"trace", PyDict(<<>>)>>, <<"posts", PyDict(<<>>)>> >>),
     PyDict(<< <<"DELETE", PyDict(<< <<"security", SecurityRequirement>> >>)>>,
               <<"options", PyDict(<< <<"security", PyList(<<>>)>> >>)>> >>),
     PyDict(<< <<"head", PyDict(<< <<"parameters",
                    PyList(<<DocParam("n", "query", PyStr("number"))>>)>> >>)>>,
               <<"PATCH", PyDict(<< <<"description", PyStr("d")>> >>)>> >>)}

\* a document with the given paths object and, when gs is not None, a
\* document-wide security declaration
Document(paths, gs) ==
    PyDict(<< <<"openapi", PyStr("3.0.0")>>, <<"paths", paths>> >>
           \o (IF gs = None THEN <<>> ELSE << <<"security", gs>> >>))

\* paths objects of up to MaxPaths entries (the keys of an object are distinct)
PathsObjects ==
    {PyDict(q) : q \in {q \in SeqsUpTo(PathKeys \X PathItems, MaxPaths) :
                          \A i, j \in 1..Len(q) : i # j => q[i][1] # q[j][1]}}

PathDocs == {Document(ps, gs) : ps \in PathsObjects, gs \in {None, SecurityRequirement}}

BodySchema(required) ==
    PyDict(<< <<"properties",
                PyDict(<< <<"age", PyDict(<< <<"type", PyStr("integer")>> >>)>>,
                          <<"name", PyDict(<< <<"type", PyStr("string")>> >>)>> >>)>> >>
           \o required)

RequestBody(schema) ==
    PyDict(<< <<"content", PyDict(<< <<"application/json",
                PyDict(<< <<"schema", schema>> >>)>> >>)>> >>)

\* the values of an operation's "parameters"; Absent stands for no such key
Absent == [t |-> "absent"]

OperationParameters ==
    {Absent, None, PyList(<<>>), PyList(<<None>>),
     PyList(<<DocParam("id", "path", PyStr("integer"))>>),
     PyList(<<DocParam("id", "path", None)>>),
     PyList(<<DocParam("id", "path", PyList(<<PyStr("integer"), PyStr("null")>>))>>),
     PyList(<<PyDict(<< <<"name", PyStr("id")>>, <<"in", PyStr("path")>>,
                        <<"type", PyStr("integer")>> >>)>>),
     PyList(<<PyDict(<< <<"name", PyStr("id")>>, <<"schema", None>> >>)>>)}

OperationSecurity == {Absent, PyList(<<>>), SecurityRequirement}

OperationRequestBody ==
    {Absent, None, PyDict(<<>>), PyList(<<PyInt(1)>>),
     RequestBody(BodySchema(<<>>)),
     RequestBody(BodySchema(<< <<"required", PyList(<<PyStr("age")>>)>> >>)),
     RequestBody(BodySchema(<< <<"required", None>> >>)),
     RequestBody(None)}

\* an object with the given items, those whose value is Absent left out
DictOf(pairs) ==
    LET keep == {i \in 1..Len(pairs) : pairs[i][2] # Absent}
        Rank(i) == Cardinality({j \in keep : j <= i})
    IN  PyDict([n \in 1..Cardinality(keep) |-> pairs[CHOOSE i \in keep : Rank(i) = n]])

\* documents of one path and one operation, over the shapes of its details
OperationDocs ==
    {Document(PyDict(<< <<"/items/{itemId}", PyDict(<< <<"post",
            DictOf(<< <<"parameters", ps>>, <<"security", sec>>,
                      <<"requestBody", body>> >>)>> >>)>> >>), gs) :
        ps \in OperationParameters, sec \in OperationSecurity,
        body \in OperationRequestBody, gs \in {None, SecurityRequirement}}

Documents == TopLevelDocs \cup PathDocs \cup OperationDocs

Response(error, status, is_json, json) ==
    [error |-> error, status |-> status, is_json |-> is_json, json |-> json]

Responses ==
    {Response("ConnectionError", 0, FALSE, None),
     Response("Timeout", 0, FALSE, None),
     Response("none", 404, TRUE, PyDict(<< <<"paths", PyDict(<<>>)>> >>)),
     Response("none", 500, FALSE, None),
     Response("none", 200, FALSE, None)}
    \cup {Response("none", 200, TRUE, d) : d \in Documents}

---------------------------------------------------------------------------
(* json.loads, as core/llm_engine.py calls it (default decoder, strict).   *)
(* A decoding step yields [ok |-> TRUE, val |-> value, end |-> position    *)
(* behind it] or [ok |-> FALSE] where the decoder raises JSONDecodeError.  *)
(* A float is [t |-> "float", v |-> its literal].                          *)

Decoded(value, end) == [ok |-> TRUE, val |-> value, end |-> end]

Undecodable == [ok |-> FALSE]

PyFloat(literal) == [t |-> "float", v |-> literal]

\* json.decoder.WHITESPACE
WHITESPACE == {" ", "\t", "\n", "\r"}

Digits == "0123456789"

HexDigits == "0123456789abcdef"

IsDigit(s, at) == at <= Len(s) /\ LetterIndex(Digits, CharAt(s, at)) # 0

IsHexDigit(s, at) ==
    at <= Len(s) /\ LetterIndex(HexDigits, LowerChar(CharAt(s, at))) # 0

\* the printable ASCII characters of codes 32 to 95, and of codes 97 to 126
Printable ==
    " !\"#$%&'()*+,-./0123456789:;<=>?@ABCDEFGHIJKLMNOPQRSTUVWXYZ[\\]^_"

PrintableLower == "abcdefghijklmnopqrstuvwxyz{|}~"

\* chr(code), for the escape \uXXXX.  A character a string of the model
\* cannot hold is written <U+XXXX>.
chr(code, hex) ==
    IF code >= 32 /\ code <= 95 THEN CharAt(Printable, code - 31)
    ELSE IF code >= 97 /\ code <= 126 THEN CharAt(PrintableLower, code - 96)
    ELSE IF code = 9 THEN "\t"
    ELSE IF code = 10 THEN "\n"
    ELSE IF code = 12 THEN "\f"
    ELSE IF code = 13 THEN "\r"
    ELSE "<U+" \o upper(hex) \o ">"

\* json.decoder.BACKSLASH: the character an escape letter stands for
BACKSLASH(esc) ==
    CASE esc = "n" -> "\n"
      [] esc = "t" -> "\t"
      [] esc = "r" -> "\r"
      [] esc = "f" -> "\f"
      [] esc = "b" -> chr(8, "0008")
      [] OTHER -> esc

\* WHITESPACE.match(s, idx).end()
RECURSIVE skip_whitespace(_, _)
skip_whitespace(s, at) ==
    IF at <= Len(s) /\ CharAt(s, at) \in WHITESPACE
    THEN skip_whitespace(s, at + 1)
    ELSE at

\* the end of the run of digits that starts at position at
RECURSIVE digits_end(_, _)
digits_end(s, at) == IF IsDigit(s, at) THEN digits_end(s, at + 1) ELSE at

\* int(text, base) of a text of digits
RECURSIVE int_of(_, _, _)
int_of(text, base, acc) ==
    IF text = "" THEN acc
    ELSE int_of(Tail(text), base,
                acc * base + LetterIndex(HexDigits, LowerChar(Head(text))) - 1)

\* STRINGCHUNK.match(s, end): the first position from end on of a quote, a
\* backslash or a control character, 0 when there is none
Terminator(s, end) ==
    LET stops == {"\"", "\\", "\n", "\t", "\r", "\f"} IN
    IF \E j \in end..Len(s) : CharAt(s, j) \in stops
    THEN CHOOSE j \in end..Len(s) :
            /\ CharAt(s, j) \in stops
            /\ \A k \in end..(j - 1) : CharAt(s, k) \notin stops
    ELSE 0

\* scanstring(s, end, strict=True): end is the position behind the opening
\* quote, chunks the characters decoded so far.  Each round takes the
\* characters up to the next terminator: a quote ends the string, a
\* control character is an error, a backslash starts an escape.
RECURSIVE scanstring(_, _, _)
scanstring(s, end, chunks) ==
    LET term == Terminator(s, end) IN
    IF term = 0 THEN Undecodable
    ELSE LET decoded == chunks \o SubSeq(s, end, term - 1) IN
         IF CharAt(s, term) = "\"" THEN Decoded(PyStr(decoded), term + 1)
         ELSE IF CharAt(s, term) # "\\" THEN Undecodable
         ELSE IF term + 1 > Len(s) THEN Undecodable
         ELSE LET esc == CharAt(s, term + 1) IN
              IF esc = "u"
              THEN IF \A k \in 2..5 : IsHexDigit(s, term + k)
                   THEN LET hex == SubSeq(s, term + 2, term + 5)
                        IN  scanstring(s, term + 6,
                                       decoded \o chr(int_of(hex, 16, 0), hex))
                   ELSE Undecodable
              ELSE IF esc \in {"\"", "\\", "/", "b", "f", "n", "r", "t"}
                   THEN scanstring(s, term + 2, decoded \o BACKSLASH(esc))
                   ELSE Undecodable

\* NUMBER_RE.match(s, idx): -?(0|[1-9]\d*)(\.\d+)?([eE][-+]?\d+)?
\* int for a literal without fraction and exponent, float otherwise
match_number(s, at) ==
    LET start == IF at <= Len(s) /\ CharAt(s, at) = "-" THEN at + 1 ELSE at
        int_end == IF IsDigit(s, start) /\ CharAt(s, start) = "0"
                   THEN start + 1
                   ELSE digits_end(s, start)
        frac_end == IF /\ int_end <= Len(s)
                       /\ CharAt(s, int_end) = "."
                       /\ IsDigit(s, int_end + 1)
                    THEN digits_end(s, int_end + 1)
                    ELSE int_end
        sign_end == IF /\ frac_end + 1 <= Len(s)
                       /\ CharAt(s, frac_end + 1) \in {"-", "+"}
                    THEN frac_end + 2
                    ELSE frac_end + 1
        exp_end == IF /\ frac_end <= Len(s)
                      /\ CharAt(s, frac_end) \in {"e", "E"}
                      /\ IsDigit(s, sign_end)
                   THEN digits_end(s, sign_end)
                   ELSE frac_end
        magnitude == int_of(SubSeq(s, start, int_end - 1), 10, 0)
    IN  IF int_end = start THEN Undecodable
        ELSE IF exp_end = int_end
             THEN Decoded(PyInt(IF start = at THEN magnitude ELSE 0 - magnitude),
                          int_end)
             ELSE Decoded(PyFloat(SubSeq(s, at, exp_end - 1)), exp_end)

\* s[idx:idx + len(word)] == word
StartsWith(s, at, word) ==
    at + Len(word) - 1 <= Len(s) /\ SubSeq(s, at, at + Len(word) - 1) = word

RECURSIVE scan_once(_, _)
RECURSIVE object_members(_, _, _)
RECURSIVE array_elements(_, _, _)

\* JSONObject, behind a pair: "}" ends the object, "," and the quote of the
\* next key go on with it
object_next(s, end, pairs) ==
    IF end > Len(s) THEN Undecodable
    ELSE IF CharAt(s, end) = "}" THEN Decoded(pairs, end + 1)
    ELSE IF CharAt(s, end) # "," THEN Undecodable
    ELSE LET quote == skip_whitespace(s, end + 1) IN
         IF quote > Len(s) \/ CharAt(s, quote) # "\"" THEN Undecodable
         ELSE object_members(s, quote + 1, pairs)

\* JSONObject, behind the value of a pair.  A key given twice keeps its
\* first place and its last value (dict(pairs)).
object_value(s, key, value, pairs) ==
    IF ~value.ok THEN Undecodable
    ELSE object_next(s, skip_whitespace(s, value.end),
                     DictSetItem(pairs, key.val.v, value.val))

\* JSONObject, behind a key: the colon, then the value
object_key(s, key, pairs) ==
    IF ~key.ok THEN Undecodable
    ELSE LET colon == skip_whitespace(s, key.end) IN
         IF colon > Len(s) \/ CharAt(s, colon) # ":" THEN Undecodable
         ELSE object_value(s, key, scan_once(s, skip_whitespace(s, colon + 1)),
                           pairs)

\* JSONObject: the pairs from the key whose opening quote is before
\* position at
object_members(s, at, pairs) == object_key(s, scanstring(s, at, ""), pairs)

\* JSONArray, behind a value: "]" ends the array, "," goes on with it
array_value(s, value, values) ==
    IF ~value.ok THEN Undecodable
    ELSE LET end == skip_whitespace(s, value.end) IN
         IF end > Len(s) THEN Undecodable
         ELSE IF CharAt(s, end) = "]"
         THEN Decoded(PyList(Append(values, value.val)), end + 1)
         ELSE IF CharAt(s, end) # "," THEN Undecodable
         ELSE array_elements(s, skip_whitespace(s, end + 1),
                             Append(values, value.val))

\* JSONArray: the values from position at on
array_elements(s, at, values) == array_value(s, scan_once(s, at), values)

\* json.scanner.scan_once(string, idx); it knows the three constants NaN,
\* Infinity and -Infinity besides the values of JSON
scan_once(s, at) ==
    IF at > Len(s) THEN Undecodable
    ELSE LET nextchar == CharAt(s, at) IN
         IF nextchar = "\"" THEN scanstring(s, at + 1, "")
         ELSE IF nextchar = "{"
         THEN LET end == skip_whitespace(s, at + 1) IN
              IF end > Len(s) THEN Undecodable
              ELSE IF CharAt(s, end) = "}" THEN Decoded(PyDict(<<>>), end + 1)
              ELSE IF CharAt(s, end) # "\"" THEN Undecodable
              ELSE object_members(s, end + 1, PyDict(<<>>))
         ELSE IF nextchar = "["
         THEN LET end == skip_whitespace(s, at + 1) IN
              IF end <= Len(s) /\ CharAt(s, end) = "]"
              THEN Decoded(PyList(<<>>), end + 1)
              ELSE array_elements(s, end, <<>>)
         ELSE IF StartsWith(s, at, "null") THEN Decoded(None, at + 4)
         ELSE IF StartsWith(s, at, "true") THEN Decoded(PyBool(TRUE), at + 4)
         ELSE IF StartsWith(s, at, "false") THEN Decoded(PyBool(FALSE), at + 5)
         ELSE IF StartsWith(s, at, "NaN") THEN Decoded(PyFloat("NaN"), at + 3)
         ELSE IF StartsWith(s, at, "Infinity")
         THEN Decoded(PyFloat("Infinity"), at + 8)
         ELSE IF StartsWith(s, at, "-Infinity")
         THEN Decoded(PyFloat("-Infinity"), at + 9)
         ELSE match_number(s, at)

\* json.decoder.JSONDecoder.decode: the text must hold one value, with
\* nothing but whitespace behind it
whole_text(s, obj) ==
    IF obj.ok /\ skip_whitespace(s, obj.end) = Len(s) + 1
    THEN Returned(obj.val)
    ELSE Raised("JSONDecodeError")

\* json.loads(text): a text that is no str (nor bytes) raises TypeError
json_loads(text) ==
    IF ~IsStr(text)
    THEN RaisedWith("TypeError",
                    "the JSON object must be str, bytes or bytearray, not "
                    \o text.t)
    ELSE whole_text(text.v, scan_once(text.v, skip_whitespace(text.v, 1)))

---------------------------------------------------------------------------
(* core/llm_engine.py: LLMEngine. *)

OPENROUTER_URL == "https://openrouter.ai/api/v1/chat/completions"

\* the classes an exception class derives from, itself included
Bases(e) ==
    IF e \in {"ConnectionError", "Timeout", "HTTPError", "RequestException"}
    THEN {e, "RequestException", "Exception"}
    ELSE IF e = "requests.JSONDecodeError"
    THEN {e, "RequestException", "JSONDecodeError", "Exception"}
    ELSE {e, "Exception"}

\* x[k] of Python: k is a str or an int
GetItem(x, k) ==
    CASE x.t = "dict" ->
            IF IsStr(k) /\ HasKey(x, k.v) THEN Returned(DictGet(x, k.v, None))
            ELSE RaisedWith("KeyError",
                            IF IsStr(k) THEN "'" \o k.v \o "'" ELSE ToString(k.v))
      [] x.t = "list" ->
            IF IsStr(k)
            THEN RaisedWith("TypeError",
                            "list indices must be integers or slices, not str")
            ELSE IF k.v + 1 \in 1..Len(x.v) THEN Returned(x.v[k.v + 1])
            ELSE RaisedWith("IndexError", "list index out of range")
      [] x.t = "str" ->
            IF IsStr(k)
            THEN RaisedWith("TypeError", "string indices must be integers, not 'str'")
            ELSE IF k.v + 1 \in 1..Len(x.v) THEN Returned(PyStr(CharAt(x.v, k.v + 1)))
            ELSE RaisedWith("IndexError", "string index out of range")
      [] OTHER ->
            RaisedWith("TypeError", "'" \o x.t \o "' object is not subscriptable")

\* requests.post(...), line 76: a connection failure or a timeout raises,
\* otherwise the response is returned
post(response) ==
    IF response.error # "none"
    THEN RaisedWith(response.error, response.message)
    ELSE Returned(response)

\* response.raise_for_status(), line 83: HTTPError for a status from 400 to
\* 599, nothing for any other status
raise_for_status(response) ==
    IF response.status >= 400 /\ response.status < 500
    THEN RaisedWith("HTTPError",
                    ToString(response.status) \o " Client Error: "
                    \o response.reason \o " for url: " \o OPENROUTER_URL)
    ELSE IF response.status >= 500 /\ response.status < 600
    THEN RaisedWith("HTTPError",
                    ToString(response.status) \o " Server Error: "
                    \o response.reason \o " for url: " \o OPENROUTER_URL)
    ELSE Returned(None)

\* the response once raise_for_status went through: it stays at hand when
\* checked, the value of raise_for_status, is no exception
response_after(response, checked) ==
    IF checked.exc = "none" THEN Returned(response) ELSE checked

\* response.raise_for_status() as the statement of line 83
status_checked(response) == response_after(response, raise_for_status(response))

\* the body as json.loads decoded it, or the error class of the installed
\* requests (its own JSONDecodeError, a RequestException, or the
\* decoder's), with the decoder's text
decoded_body(response, data) ==
    IF data.exc = "none" THEN data
    ELSE RaisedWith(response.json_error, response.message)

\* response.json(), line 84: the body decoded by json.loads
response_json(response) ==
    decoded_body(response, json_loads(PyStr(response.body)))

\* a subscription of the value of the subscription before it, unless that
\* one raised
then_GetItem(r, k) == IF r.exc = "none" THEN GetItem(r.ret, k) ELSE r

\* data["choices"][0]["message"]["content"], line 86
content_of(data) ==
    then_GetItem(then_GetItem(then_GetItem(GetItem(data, PyStr("choices")),
                                           PyInt(0)),
                              PyStr("message")),
                 PyStr("content"))

\* lines 83, 84 and 86 behind the statement before them: skipped when that
\* one raised
then_status_checked(r) == IF r.exc = "none" THEN status_checked(r.ret) ELSE r

then_response_json(r) == IF r.exc = "none" THEN response_json(r.ret) ELSE r

then_content_of(r) == IF r.exc = "none" THEN content_of(r.ret) ELSE r

\* _call_model, lines 75-86: the statements of the try block up to the call
\* of _safe_json_parse; the first that raises ends them
request_content(response) ==
    then_content_of(then_response_json(then_status_checked(post(response))))

ErrorObject(text) == PyDict(<< <<"error", PyStr(text)>> >>)

ErrorObjectWithRaw(text, raw) ==
    PyDict(<< <<"error", PyStr(text)>>, <<"raw", raw>> >>)

\* variant of call_model_except without the second except clause
call_model_except_requests_only(raised) ==
    IF "RequestException" \in Bases(raised.exc)
    THEN Returned(ErrorObject("HTTP request failed: " \o raised.msg))
    ELSE raised

\* _call_model, lines 90-98: the two except clauses, tried in their order;
\* an exception neither names goes on to the caller
call_model_except(raised) ==
    IF "RequestException" \in Bases(raised.exc)
    THEN Returned(ErrorObject("HTTP request failed: " \o raised.msg))
    ELSE IF "Exception" \in Bases(raised.exc)
    THEN Returned(ErrorObject("Unexpected error: " \o raised.msg))
    ELSE raised

\* the last position of character c in s, 0 when there is none
RFind(s, c) ==
    IF \E j \in 1..Len(s) : CharAt(s, j) = c
    THEN CHOOSE j \in 1..Len(s) :
            /\ CharAt(s, j) = c
            /\ \A k \in (j + 1)..Len(s) : CharAt(s, k) # c
    ELSE 0

\* re.search(r"\{.*\}", text, re.DOTALL), line 45: the greedy .* matches
\* any character, so the match goes from the first "{" to the last "}"
search_braces(text) ==
    LET open == Find(text, "{", 1)
        close == RFind(text, "}")
    IN  IF open # 0 /\ close > open
        THEN [found |-> TRUE, group |-> SubSeq(text, open, close)]
        ELSE [found |-> FALSE]

---------------------------------------------------------------------------
(* The replies of the model service to LLMEngine. *)

\* no reply: requests.post raises error, whose text is message
NoReply(error, message) ==
    [error |-> error, message |-> message, status |-> 0, reason |-> "",
     body |-> "", json_error |-> "requests.JSONDecodeError"]

\* a reply with a status line and a body; message is the text of the
\* decoder's error when the body is no JSON, and json_error its class
Reply(status, reason, body, message, json_error) ==
    [error |-> "none", message |-> message, status |-> status,
     reason |-> reason, body |-> body, json_error |-> json_error]

\* a JSON string literal holding text
RECURSIVE Escaped(_)
Escaped(text) ==
    IF text = "" THEN ""
    ELSE (CASE Head(text) = "\"" -> "\\\""
            [] Head(text) = "\\" -> "\\\\"
            [] Head(text) = "\n" -> "\\n"
            [] OTHER -> Head(text)) \o Escaped(Tail(text))

Quoted(text) == "\"" \o Escaped(text) \o "\""

\* the body of a chat completion whose message content is the JSON value
\* content_json
CompletionBody(content_json) ==
    "{\"id\":\"gen-1\",\"choices\":[{\"index\":0,\"message\":{\"role\":\"assistant\","
    \o "\"content\":" \o content_json \o "},\"finish_reason\":\"stop\"}]}"

\* texts a model answers with: JSON as asked, JSON inside prose, and prose
ContentTexts ==
    {"{\"risk_level\":\"High\",\"reasoning\":\"id in path\"}",
     " {\"risk_level\": \"Low\"}\n",
     "{}",
     "{\"error\":\"none found\"}",
     "[1,2]",
     "42",
     "\"High\"",
     "null",
     "NaN",
     "",
     "I cannot help with that.",
     "Sure! {\"risk_level\":\"Low\"}",
     "{\"risk_level\":\"Low\"} Hope this helps.",
     "Result:\n{\"a\":{\"b\":[1,{\"c\":null}]}}\nDone.",
     "First {\"a\":1} then {\"b\":2}",
     "{\"a\":1} {\"b\":2}",
     "{\"a\":1} }",
     "} {\"a\":1}",
     "{risk_level: High}",
     "{\"risk_level\":\"High\"",
     "{\"risk_level\":\"High\",}",
     "{'risk_level':'High'}",
     "{",
     "}",
     "} {",
     "{\"a\":\"}\"} and {\"b\":\"{\"}",
     "Use {\"a\":\"x}\"",
     "[{\"a\":1}",
     "x{}y"}

\* contents that are no str: null, a number, an array, an object
ContentValues == {"null", "7", "[]", "{\"risk_level\":\"High\"}"}

\* bodies that are JSON without the content of a completion
OtherBodies ==
    {"{}", "[]", "null", "7", "\"busy\"",
     "{\"error\":{\"message\":\"Rate limit exceeded\",\"code\":429}}",
     "{\"choices\":[]}", "{\"choices\":{}}", "{\"choices\":null}",
     "{\"choices\":\"none\"}", "{\"choices\":\"\"}", "{\"choices\":[null]}",
     "{\"choices\":[{}]}", "{\"choices\":[[]]}",
     "{\"choices\":[{\"message\":null}]}", "{\"choices\":[{\"message\":{}}]}",
     "{\"choices\":[{\"message\":\"text\"}]}",
     "{\"choices\":[{\"message\":{\"role\":\"assistant\"}}]}"}

ExpectingValue == "Expecting value: line 1 column 1 (char 0)"

Replies ==
    {NoReply("ConnectionError", "Connection refused"),
     NoReply("Timeout", "Read timed out."),
     Reply(400, "Bad Request", "{\"error\":{\"message\":\"bad\",\"code\":400}}",
           "", "requests.JSONDecodeError"),
     Reply(401, "Unauthorized", CompletionBody(Quoted("{}")),
           "", "requests.JSONDecodeError"),
     Reply(429, "Too Many Requests", "", ExpectingValue, "requests.JSONDecodeError"),
     Reply(500, "Internal Server Error", "<html>error</html>", ExpectingValue,
           "requests.JSONDecodeError"),
     Reply(503, "Service Unavailable", CompletionBody(Quoted("{}")),
           "", "requests.JSONDecodeError"),
     Reply(300, "Multiple Choices", CompletionBody(Quoted("{\"risk_level\":\"Low\"}")),
           "", "requests.JSONDecodeError"),
     Reply(304, "Not Modified", "", ExpectingValue, "requests.JSONDecodeError"),
     Reply(204, "No Content", "", ExpectingValue, "requests.JSONDecodeError"),
     Reply(200, "OK", "", ExpectingValue, "JSONDecodeError"),
     Reply(200, "OK", "<html>Bad Gateway</html>", ExpectingValue,
           "requests.JSONDecodeError"),
     Reply(200, "OK", "{\"choices\":[{\"message\":",
           "Expecting value: line 1 column 24 (char 23)",
           "requests.JSONDecodeError")}
    \cup {Reply(200, "OK", body, "", "requests.JSONDecodeError") :
            body \in OtherBodies}
    \cup {Reply(200, "OK", CompletionBody(value), "", "requests.JSONDecodeError") :
            value \in ContentValues}
    \cup {Reply(200, "OK", CompletionBody(Quoted(text)), "",
                "requests.JSONDecodeError") : text \in ContentTexts}
    \cup {Reply(201, "Created", CompletionBody(Quoted("{\"risk_level\":\"Low\"}")),
                "", "requests.JSONDecodeError")}

\* the values os.getenv("OPENROUTER_API_KEY") gives: unset, empty, a key
ApiKeys == {None, PyStr(""), PyStr("sk-or-key")}

\* documents whose routes carry one and three findings
LLMDocuments ==
    {Document(PyDict(<< <<"/users/{id}", PyDict(<< <<"summary", PyStr("text")>>,
                  <<"get", PyDict(<<>>)>> >>)>> >>), None),
     Document(PyDict(<<
        <<"/users/{id}",
          PyDict(<< <<"DELETE", PyDict(<< <<"security", SecurityRequirement>> >>)>>,
                    <<"options", PyDict(<< <<"security", PyList(<<>>)>> >>)>> >>)>>,
        <<"/admin", PyDict(<< <<"summary", PyStr("text")>>,
                              <<"get", PyDict(<<>>)>> >>)>> >>), None)}

---------------------------------------------------------------------------
(* The state machine. *)

NoCall == [exc |-> "none", ret |-> None, arg |-> None]

\* no reply received yet
NoReplyYet == NoReply("none", "")

\* the LLM phase has not begun
NoLLM ==
    /\ llm_pc = "none"
    /\ llm_call = "none"
    /\ llm_idx = 0
    /\ reply = NoReplyYet
    /\ llm_content = None
    /\ stages = <<>>
    /\ llm_result = NoCall

\* a SwaggerParser right after construction (swagger_data is None); no
\* analyzer yet
Init ==
    /\ pc = "start"
    /\ entry = "none"
    /\ swagger_data = None
    /\ fetch_ok = FALSE
    /\ endpoints = <<>>
    /\ given = <<>>
    /\ idx = 0
    /\ enriched = NoCall
    /\ enriched_endpoints = <<>>
    /\ exc = "none"
    /\ NoLLM

\* run_analysis, lines 41-43: parser.fetch_swagger()
FetchSwagger ==
    /\ pc = "start"
    /\ \E response \in Responses :
          LET r == fetch_swagger(response, swagger_data) IN
          /\ swagger_data' = r.data
          /\ fetch_ok' = r.ok
    /\ entry' = "run_analysis"
    /\ pc' = "fetched"
    /\ UNCHANGED <<endpoints, given, idx, enriched, enriched_endpoints, exc>>
    /\ UNCHANGED llm_vars

\* run_analysis, lines 43-45: fetch_swagger returned False
FetchFailed ==
    /\ pc = "fetched"
    /\ ~fetch_ok
    /\ pc' = "returned"
    /\ UNCHANGED <<entry, swagger_data, fetch_ok, endpoints, given, idx, enriched,
                   enriched_endpoints, exc>>
    /\ UNCHANGED llm_vars

\* parser.extract_endpoints(): by run_analysis after a fetch that returned
\* True (line 47), or by a user of the class on a parser that never loaded
\* a document.  An exception is caught nowhere.
ExtractEndpoints ==
    /\ \/ pc = "fetched" /\ fetch_ok /\ UNCHANGED entry
       \/ pc = "start" /\ entry' = "parser"
    /\ LET r == extract_endpoints(swagger_data) IN
          IF r.exc # "none"
          THEN /\ pc' = "extract_raised"
               /\ exc' = r.exc
               /\ UNCHANGED endpoints
          ELSE /\ pc' = "extracted"
               /\ endpoints' = r.ret
               /\ UNCHANGED exc
    /\ UNCHANGED <<swagger_data, fetch_ok, given, idx, enriched, enriched_endpoints>>
    /\ UNCHANGED llm_vars

\* run_analysis, lines 49-51: no endpoints found
NoEndpoints ==
    /\ pc = "extracted"
    /\ endpoints = <<>>
    /\ pc' = "returned"
    /\ UNCHANGED <<entry, swagger_data, fetch_ok, endpoints, given, idx, enriched,
                   enriched_endpoints, exc>>
    /\ UNCHANGED llm_vars

\* AttackSurfaceAnalyzer(endpoints) followed by the call of analyze(), which
\* starts with an empty enriched_endpoints (analyzer.py lines 29-30, 82)
StartAnalyze(routes) ==
    /\ endpoints' = routes
    /\ given' = routes
    /\ idx' = 1
    /\ enriched' = NoCall
    /\ enriched_endpoints' = <<>>
    /\ exc' = "none"
    /\ pc' = "analyze"

\* run_analysis, lines 64-65: the analyzer runs on the list extract_endpoints
\* returned
RunAnalyzer ==
    /\ pc = "extracted"
    /\ entry = "run_analysis"
    /\ endpoints # <<>>
    /\ StartAnalyze(endpoints)
    /\ UNCHANGED <<entry, swagger_data, fetch_ok>>
    /\ UNCHANGED llm_vars

\* a user of the class builds an analyzer on a list of route records
NewAnalyzer ==
    /\ pc = "start"
    /\ \E routes \in RouteLists : StartAnalyze(routes)
    /\ entry' = "analyzer"
    /\ UNCHANGED <<swagger_data, fetch_ok>>
    /\ UNCHANGED llm_vars

\* analyze, one iteration of the for loop (lines 84-89).  An exception of
\* enrich_endpoint is not caught: it leaves analyze, and the list built so
\* far is lost with the frame.
AnalyzeStep ==
    /\ pc = "analyze"
    /\ idx <= Len(endpoints)
    /\ LET r == enrich_endpoint(endpoints[idx]) IN
        /\ enriched' = r
        /\ endpoints' = [endpoints EXCEPT ![idx] = r.arg]
        /\ IF r.exc # "none"
           THEN /\ pc' = "analyze_raised"
                /\ exc' = r.exc
                /\ UNCHANGED <<idx, enriched_endpoints>>
           ELSE /\ enriched_endpoints' = collect(enriched_endpoints, r.ret)
                /\ idx' = idx + 1
                /\ UNCHANGED <<pc, exc>>
    /\ UNCHANGED <<entry, swagger_data, fetch_ok, given>>
    /\ UNCHANGED llm_vars

\* analyze, line 91: return enriched_endpoints
AnalyzeReturn ==
    /\ pc = "analyze"
    /\ idx > Len(endpoints)
    /\ pc' = "analyzed"
    /\ UNCHANGED <<entry, swagger_data, fetch_ok, endpoints, given, idx, enriched,
                   enriched_endpoints, exc>>
    /\ UNCHANGED llm_vars

Next ==
    \/ FetchSwagger
    \/ FetchFailed
    \/ ExtractEndpoints
    \/ NoEndpoints
    \/ RunAnalyzer
    \/ NewAnalyzer
    \/ AnalyzeStep
    \/ AnalyzeReturn

Spec == Init /\ [][Next]_vars

---------------------------------------------------------------------------
(* The LLM phase of run_analysis (main.py lines 86-114) and LLMEngine. *)

\* AttackSurfaceAnalyzer.analyze as a whole, on routes enrich_endpoint
\* returns on
RECURSIVE analyze(_, _)
analyze(routes, found) ==
    IF routes = <<>> THEN found
    ELSE analyze(Tail(routes), collect(found, enrich_endpoint(Head(routes)).ret))

\* run_analysis at line 86: a document was fetched, its routes extracted,
\* and analyze returned their findings
LLMInit ==
    /\ pc = "analyzed"
    /\ entry = "run_analysis"
    /\ swagger_data \in LLMDocuments
    /\ fetch_ok = TRUE
    /\ endpoints = extract_endpoints(swagger_data).ret
    /\ given = endpoints
    /\ idx = Len(endpoints) + 1
    /\ enriched = enrich_endpoint(endpoints[Len(endpoints)])
    /\ enriched_endpoints = analyze(endpoints, <<>>)
    /\ exc = "none"
    /\ NoLLM

\* a call of LLMEngine ends: with its value, or with an exception that
\* nothing in run_analysis catches
Leave(result) ==
    /\ llm_result' = result
    /\ IF result.exc = "none"
       THEN /\ llm_pc' = "returned"
            /\ UNCHANGED <<pc, exc>>
       ELSE /\ llm_pc' = "raised"
            /\ pc' = "llm_raised"
            /\ exc' = result.exc

\* run_analysis, line 90: llm = LLMEngine().  The constructor (lines 27-31)
\* raises ValueError when the environment holds no key.
NewLLMEngine ==
    /\ pc = "analyzed"
    /\ entry = "run_analysis"
    /\ enriched_endpoints # <<>>
    /\ llm_pc = "none"
    /\ \E api_key \in ApiKeys :
          IF Truthy(api_key)
          THEN /\ pc' = "llm"
               /\ llm_pc' = "ready"
               /\ llm_idx' = 1
               /\ UNCHANGED exc
          ELSE /\ pc' = "llm_raised"
               /\ exc' = "ValueError"
               /\ UNCHANGED <<llm_pc, llm_idx>>
    /\ UNCHANGED <<llm_call, reply, llm_content, stages, llm_result>>
    /\ UNCHANGED scan_vars

\* a call starts: the prompt is built (json.dumps of values that all came
\* out of JSON returns) and _call_model is entered
StartCall(method) ==
    /\ llm_call' = method
    /\ llm_pc' = "call_model"
    /\ reply' = NoReplyYet
    /\ llm_content' = None
    /\ stages' = <<>>
    /\ llm_result' = NoCall
    /\ UNCHANGED <<pc, exc, llm_idx>>
    /\ UNCHANGED scan_vars

\* run_analysis, lines 93-94: llm.analyze_endpoint(endpoint) (lines 104-136)
AnalyzeEndpoint ==
    /\ pc = "llm"
    /\ llm_pc = "ready"
    /\ llm_idx <= Len(enriched_endpoints)
    /\ StartCall("analyze_endpoint")

\* run_analysis, line 111: llm.analyze_global(enriched_endpoints) (lines
\* 142-177), once the loop is through
AnalyzeGlobal ==
    /\ pc = "llm"
    /\ llm_pc = "ready"
    /\ llm_idx > Len(enriched_endpoints)
    /\ StartCall("analyze_global")

\* the content is at hand and _safe_json_parse is entered with it (line
\* 88), or the except clauses end the call
ContentOutcome(r) ==
    IF r.exc = "none"
    THEN /\ llm_content' = r.ret
         /\ llm_pc' = "strict"
         /\ UNCHANGED <<pc, exc, llm_result>>
    ELSE /\ Leave(call_model_except(r))
         /\ UNCHANGED llm_content

\* _call_model, lines 75-86 and 90-98: the request, the status check, the
\* decoding of the body and the reading of the content.  An exception of
\* any of them goes to the except clauses.
CallModel ==
    /\ llm_pc = "call_model"
    /\ \E response \in Replies :
          /\ reply' = response
          /\ ContentOutcome(request_content(response))
    /\ UNCHANGED <<llm_call, llm_idx, stages>>
    /\ UNCHANGED scan_vars

\* json.loads under `except json.JSONDecodeError`: its value is returned;
\* JSONDecodeError leads to the next stage; any other exception leaves
\* _safe_json_parse for the except clauses of _call_model
LoadsOutcome(r, next_stage) ==
    IF r.exc = "none" THEN Leave(r)
    ELSE IF "JSONDecodeError" \in Bases(r.exc)
    THEN /\ llm_pc' = next_stage
         /\ UNCHANGED <<pc, exc, llm_result>>
    ELSE Leave(call_model_except(r))

\* _safe_json_parse, lines 42-44: json.loads(text)
StrictParse ==
    /\ llm_pc = "strict"
    /\ stages' = Append(stages, "strict")
    /\ LoadsOutcome(json_loads(llm_content), "regex")
    /\ UNCHANGED <<llm_call, llm_idx, reply, llm_content>>
    /\ UNCHANGED scan_vars

\* _safe_json_parse, lines 45-49: the brace span and json.loads of it
RegexParse ==
    /\ llm_pc = "regex"
    /\ stages' = Append(stages, "regex")
    /\ LET match == search_braces(llm_content.v) IN
       IF ~match.found
       THEN /\ llm_pc' = "no_object"
            /\ UNCHANGED <<pc, exc, llm_result>>
       ELSE LoadsOutcome(json_loads(PyStr(match.group)), "malformed")
    /\ UNCHANGED <<llm_call, llm_idx, reply, llm_content>>
    /\ UNCHANGED scan_vars

\* _safe_json_parse, lines 50-57: the error object, with the text as "raw"
StructuredError ==
    /\ llm_pc \in {"malformed", "no_object"}
    /\ stages' = Append(stages, "error")
    /\ Leave(Returned(ErrorObjectWithRaw(
                IF llm_pc = "malformed"
                THEN "Malformed JSON from model"
                ELSE "No JSON object detected",
                llm_content)))
    /\ UNCHANGED <<llm_call, llm_idx, reply, llm_content>>
    /\ UNCHANGED scan_vars

\* run_analysis, lines 95-98: the result of analyze_endpoint is kept for
\* the printing and the loop goes on
AppendResult ==
    /\ llm_pc = "returned"
    /\ llm_call = "analyze_endpoint"
    /\ llm_idx' = llm_idx + 1
    /\ llm_pc' = "ready"
    /\ UNCHANGED <<pc, exc, llm_call, reply, llm_content, stages, llm_result>>
    /\ UNCHANGED scan_vars

\* run_analysis, lines 113-114: the result of analyze_global is printed and
\* run_analysis returns
PrintGlobal ==
    /\ llm_pc = "returned"
    /\ llm_call = "analyze_global"
    /\ pc' = "returned"
    /\ llm_pc' = "done"
    /\ UNCHANGED <<exc, llm_call, llm_idx, reply, llm_content, stages, llm_result>>
    /\ UNCHANGED scan_vars

LLMNext ==
    \/ NewLLMEngine
    \/ AnalyzeEndpoint
    \/ AnalyzeGlobal
    \/ CallModel
    \/ StrictParse
    \/ RegexParse
    \/ StructuredError
    \/ AppendResult
    \/ PrintGlobal

LLMSpec == LLMInit /\ [][LLMNext]_vars

---------------------------------------------------------------------------
(* Notions the properties are stated with. *)

\* enrich_endpoint has been called in the analysis under way
Called == pc \in {"analyze", "analyzed", "analyze_raised"} /\ enriched # NoCall

\* the last call of enrich_endpoint returned (its finding is enriched.ret)
CallReturned == Called /\ enriched.exc = "none"

\* the record the last call of enrich_endpoint was made on, as it was
\* handed to the analyzer (idx has moved on when the call returned)
LastRoute == given[IF enriched.exc = "none" THEN idx - 1 ELSE idx]

\* the signal list of a route record, when enrich_endpoint returns on it
SignalsOf(route) == risk_signals(enrich_endpoint(route).ret)

\* the number of times tag occurs in a signal list
Occurrences(signals, tag) == Cardinality({i \in 1..Len(signals) : signals[i] = tag})

\* the fixed order of the vocabulary of signals
Vocabulary ==
    <<"state_change", "object_identifier", "numeric_input", "admin_route",
      "authenticated_endpoint">>

\* a record of the shape the data model declares: a field that is present
\* has its declared type (a str method and path, a list of parameter
\* records whose type, when present, is a str)
WellTyped(route) ==
    /\ IsDict(route)
    /\ IsStr(DictGet(route, "method", PyStr("")))
    /\ IsStr(DictGet(route, "path", PyStr("")))
    /\ LET ps == DictGet(route, "parameters", PyList(<<>>)) IN
        /\ ps.t = "list"
        /\ \A i \in 1..Len(ps.v) :
              /\ IsDict(ps.v[i])
              /\ IsStr(DictGet(ps.v[i], "type", PyStr("")))

\* two characters that are the same letter, in whatever case
SameLetter(c, d) ==
    \/ c = d
    \/ \E n \in 1..Len(UpperLetters) :
          {c, d} = {CharAt(UpperLetters, n), CharAt(LowerLetters, n)}

\* two strings that differ in the case of their letters at most
EqualIgnoringCase(a, b) ==
    /\ Len(a) = Len(b)
    /\ \A i \in 1..Len(a) : SameLetter(CharAt(a, i), CharAt(b, i))

---------------------------------------------------------------------------
(* C1 *)

\* the findings analyze owes for a list of routes: those of the routes with
\* a non-empty signal list, in the order of the routes
RECURSIVE FindingsOf(_)
FindingsOf(routes) ==
    IF routes = <<>> THEN <<>>
    ELSE (IF SignalsOf(Head(routes)) # <<>>
          THEN <<enrich_endpoint(Head(routes)).ret>>
          ELSE <<>>) \o FindingsOf(Tail(routes))

\* C1: analyze returns exactly the findings of the routes whose signal list
\* is non-empty, in the order of their routes in the input: none with an
\* empty list is emitted, none with a non-empty list is left out, no two
\* are reordered.  It holds of every prefix the loop has gone through, and
\* analyze does return on every list of well-typed routes.
C1_AnalyzeFiltersInOrder ==
    /\ pc \in {"analyze", "analyzed"} =>
          enriched_endpoints = FindingsOf(SubSeq(given, 1, idx - 1))
    /\ pc = "analyzed" => idx = Len(given) + 1
    /\ pc = "analyze_raised" => ~WellTyped(given[idx])

\* analyze has returned on three routes, the middle one without a signal,
\* the other two with different findings
C1_Witness ==
    /\ pc = "analyzed"
    /\ Len(given) = 3
    /\ SignalsOf(given[2]) = <<>>
    /\ Len(enriched_endpoints) = 2
    /\ enriched_endpoints[1] # enriched_endpoints[2]

---------------------------------------------------------------------------
(* C2 *)

\* the position of a tag in the vocabulary, 0 for a tag that is not in it
Position(tag) ==
    IF \E n \in 1..Len(Vocabulary) : Vocabulary[n] = tag
    THEN CHOOSE n \in 1..Len(Vocabulary) : Vocabulary[n] = tag
    ELSE 0

\* C2: the signal list enrich_endpoint produces holds only tags of the
\* vocabulary, each at most once, in the vocabulary's order (it is a
\* subsequence of the vocabulary), however many placeholders or numeric
\* parameters match.
C2_SignalsOrderedSubsequence ==
    CallReturned =>
        LET signals == risk_signals(enriched.ret) IN
        /\ \A i \in 1..Len(signals) : Position(signals[i]) # 0
        /\ \A i, j \in 1..Len(signals) :
              i < j => Position(signals[i]) < Position(signals[j])

\* a route with two matching placeholders and two numeric parameters got
\* all five signals
C2_Witness ==
    /\ CallReturned
    /\ Len(findall(DictGet(LastRoute, "path", PyStr("")).v, 1)) = 2
    /\ Len(DictGet(LastRoute, "parameters", PyList(<<>>)).v) = 2
    /\ Len(risk_signals(enriched.ret)) = 5

---------------------------------------------------------------------------
(* C5 *)

\* the route's method is one of POST, PUT, PATCH, DELETE in whatever case
\* (an absent method counts as the empty string)
MethodChangesState(route) ==
    \E m \in {"POST", "PUT", "PATCH", "DELETE"} :
        EqualIgnoringCase(DictGet(route, "method", PyStr("")).v, m)

\* C5: the signals of a route include state_change if and only if its
\* method, compared without regard to case, is one of POST, PUT, PATCH,
\* DELETE; a GET, HEAD or OPTIONS route never gets it.
C5_StateChangeIffMutatingMethod ==
    CallReturned =>
        (Occurrences(risk_signals(enriched.ret), "state_change") > 0
            <=> MethodChangesState(LastRoute))

\* a route whose method is written in lower case got state_change
C5_Witness ==
    /\ CallReturned
    /\ DictGet(LastRoute, "method", None) = PyStr("delete")
    /\ Occurrences(risk_signals(enriched.ret), "state_change") = 1

---------------------------------------------------------------------------
(* C3 *)

\* every finding the analysis holds: the one of the last call and those
\* collected so far
Findings ==
    (IF CallReturned THEN {enriched.ret} ELSE {})
    \cup (IF pc \in {"analyze", "analyzed"}
          THEN {enriched_endpoints[k] : k \in 1..Len(enriched_endpoints)}
          ELSE {})

\* the severity policy of the specification
SeverityPolicy(signals) ==
    IF \E i \in 1..Len(signals) :
          signals[i] \in {"state_change", "admin_route", "object_identifier"}
    THEN "HIGH"
    ELSE "LOW"

---------------------------------------------------------------------------
(* C4 *)

\* C4 as stated: enrich_endpoint never raises, whatever field of the record
\* is absent, null or of another type, so analyze goes through the whole
\* list and returns.
C4_EnrichNeverRaises ==
    /\ Called => enriched.exc = "none"
    /\ pc # "analyze_raised"

\* what does hold: an absent field never makes the call raise, nor does any
\* value of auth_required; a raise comes from a method, path, parameters or
\* parameter type that is present with another type than the declared one
C4_AbsentFieldsDoNotRaise ==
    (Called /\ enriched.exc # "none") => ~WellTyped(LastRoute)

---------------------------------------------------------------------------
(* C6 *)

\* the path holds a brace-delimited placeholder, from a "{" to the next
\* "}", whose body in lower case contains a keyword
HasIdentifierPlaceholder(path) ==
    \E i, j \in 1..Len(path) :
        /\ i < j
        /\ CharAt(path, i) = "{"
        /\ CharAt(path, j) = "}"
        /\ ~Contains(SubSeq(path, i + 1, j - 1), "}")
        /\ has_keyword(SubSeq(path, i + 1, j - 1))

\* the same, for placeholders whose body holds no line feed
HasIdentifierPlaceholderOnOneLine(path) ==
    \E i, j \in 1..Len(path) :
        /\ i < j
        /\ CharAt(path, i) = "{"
        /\ CharAt(path, j) = "}"
        /\ ~Contains(SubSeq(path, i + 1, j - 1), "}")
        /\ ~Contains(SubSeq(path, i + 1, j - 1), "\n")
        /\ has_keyword(SubSeq(path, i + 1, j - 1))

\* C6 as stated: the signals hold object_identifier exactly once when some
\* placeholder of the path contains a keyword, and not at all otherwise (a
\* path without placeholder, or with empty placeholders only).
C6_ObjectIdentifierIffPlaceholder ==
    CallReturned =>
        Occurrences(risk_signals(enriched.ret), "object_identifier")
          = IF HasIdentifierPlaceholder(DictGet(LastRoute, "path", PyStr("")).v)
            THEN 1 ELSE 0

\* what does hold: the same with the placeholders that hold no line feed
C6_ObjectIdentifierIffOneLinePlaceholder ==
    CallReturned =>
        Occurrences(risk_signals(enriched.ret), "object_identifier")
          = IF HasIdentifierPlaceholderOnOneLine(DictGet(LastRoute, "path", PyStr("")).v)
            THEN 1 ELSE 0

---------------------------------------------------------------------------
(* C7 *)

\* C7: enrich_endpoint leaves its argument as it was: the record has the
\* fields and values it had (no risk_signals is added to it, the analyzer's
\* list is the list it was given), the finding carries every field of the
\* route with its value, and a second call on the route gives the same
\* signal list.
C7_EnrichLeavesInputUnchanged ==
    /\ endpoints = given \/ pc \notin {"analyze", "analyzed", "analyze_raised"}
    /\ Called => enriched.arg = LastRoute
    /\ CallReturned =>
          /\ \A k \in Keys(LastRoute) :
                DictGet(enriched.ret, k, None) = DictGet(LastRoute, k, None)
          /\ risk_signals(enrich_endpoint(enriched.arg).ret) = risk_signals(enriched.ret)

\* a call returned a finding with signals for a record that has no
\* risk_signals field
C7_Witness ==
    /\ CallReturned
    /\ risk_signals(enriched.ret) # <<>>
    /\ ~HasKey(endpoints[idx - 1], "risk_signals")
    /\ HasKey(enriched.ret, "risk_signals")

---------------------------------------------------------------------------
(* C8 *)

\* extract_endpoints has returned a list for the loaded document
Extracted == pc = "extracted" /\ IsDict(swagger_data)

\* the paths object of the loaded document, empty when the document is no
\* object or has none
PathsOf(data) ==
    IF IsDict(data) THEN DictGet(data, "paths", PyDict(<<>>)) ELSE PyDict(<<>>)

\* a key of a path item that is one of the seven verbs, in whatever case
IsVerb(key) == \E v \in VERBS : EqualIgnoringCase(key, v)

\* the route extracted for path and verb key carries a parameter with the
\* name and location of every declaration of the list
CarriesDeclared(routes, path, key, declared) ==
    \E r \in 1..Len(routes) :
        /\ DictGet(routes[r], "path", None) = PyStr(path)
        /\ EqualIgnoringCase(DictGet(routes[r], "method", None).v, key)
        /\ \A d \in 1..Len(declared.v) :
              \E q \in 1..Len(DictGet(routes[r], "parameters", None).v) :
                 LET got == DictGet(routes[r], "parameters", None).v[q] IN
                 /\ DictGet(got, "name", None) = DictGet(declared.v[d], "name", None)
                 /\ DictGet(got, "in", None) = DictGet(declared.v[d], "in", None)

\* the operations of a path item that declares parameters at path level and
\* that declare parameters themselves: positions <<i, j>> in the document
MergeCases(paths) ==
    UNION {{<<i, j>> : j \in {j \in 1..Len(paths.v[i][2].v) :
                 /\ HasKey(paths.v[i][2], "parameters")
                 /\ DictGet(paths.v[i][2], "parameters", None).t = "list"
                 /\ IsVerb(paths.v[i][2].v[j][1])
                 /\ IsDict(paths.v[i][2].v[j][2])
                 /\ HasKey(paths.v[i][2].v[j][2], "parameters")
                 /\ DictGet(paths.v[i][2].v[j][2], "parameters", None).t = "list"}} :
           i \in {i \in 1..Len(paths.v) : IsDict(paths.v[i][2])}}

\* C8 as stated: when a path declares parameters at path level and one of
\* its operations declares parameters too, the route of that operation
\* holds the parameters of both levels.
C8_PathLevelParametersMerged ==
    (Extracted /\ IsDict(PathsOf(swagger_data))) =>
        LET paths == PathsOf(swagger_data) IN
        \A c \in MergeCases(paths) :
            LET path == paths.v[c[1]][1]
                item == paths.v[c[1]][2]
                key == item.v[c[2]][1]
            IN  /\ CarriesDeclared(endpoints, path, key,
                                   DictGet(item.v[c[2]][2], "parameters", None))
                /\ CarriesDeclared(endpoints, path, key,
                                   DictGet(item, "parameters", None))

\* what does hold: the route holds the operation's own parameters
C8_OperationParametersKept ==
    (Extracted /\ IsDict(PathsOf(swagger_data))) =>
        LET paths == PathsOf(swagger_data) IN
        \A c \in MergeCases(paths) :
            CarriesDeclared(endpoints, paths.v[c[1]][1], paths.v[c[1]][2].v[c[2]][1],
                            DictGet(paths.v[c[1]][2].v[c[2]][2], "parameters", None))

---------------------------------------------------------------------------
(* C9 *)

\* the list run_analysis got from extract_endpoints and hands to the analyzer
InScan == entry = "run_analysis" /\ pc \in {"extracted", "analyze", "analyzed", "analyze_raised"}

ScanRoutes == IF pc = "extracted" THEN endpoints ELSE given

UpperVerbs == {"GET", "POST", "PUT", "PATCH", "DELETE", "OPTIONS", "HEAD"}

\* the positions <<i, j>> of the verb keys of the document, and of its
\* other keys
VerbEntries(paths) ==
    UNION {{<<i, j>> : j \in {j \in 1..Len(paths.v[i][2].v) : IsVerb(paths.v[i][2].v[j][1])}} :
           i \in 1..Len(paths.v)}

OtherEntries(paths) ==
    UNION {{<<i, j>> : j \in {j \in 1..Len(paths.v[i][2].v) : ~IsVerb(paths.v[i][2].v[j][1])}} :
           i \in 1..Len(paths.v)}

\* C9 as stated: every route of a scan has a non-empty path and an
\* upper-case method among the seven verbs.
C9_RoutesHavePathAndVerb ==
    InScan =>
        \A r \in 1..Len(ScanRoutes) :
            /\ IsStr(DictGet(ScanRoutes[r], "path", None))
            /\ DictGet(ScanRoutes[r], "path", None).v # ""
            /\ IsStr(DictGet(ScanRoutes[r], "method", None))
            /\ DictGet(ScanRoutes[r], "method", None).v \in UpperVerbs

\* C9 as amended: every route of a scan has an upper-case method among the
\* seven verbs and as path the key of its document entry, empty or not; a
\* key that is no verb yields no route and a verb key in whatever case
\* yields one.
C9_RoutesHaveVerb ==
    InScan =>
        LET paths == PathsOf(swagger_data) IN
        /\ \A r \in 1..Len(ScanRoutes) :
              /\ IsStr(DictGet(ScanRoutes[r], "method", None))
              /\ DictGet(ScanRoutes[r], "method", None).v \in UpperVerbs
              /\ IsStr(DictGet(ScanRoutes[r], "path", None))
              /\ \E c \in VerbEntries(paths) :
                    /\ paths.v[c[1]][1] = DictGet(ScanRoutes[r], "path", None).v
                    /\ EqualIgnoringCase(paths.v[c[1]][2].v[c[2]][1],
                                         DictGet(ScanRoutes[r], "method", None).v)
        /\ Len(ScanRoutes) = Cardinality(VerbEntries(paths))

\* a scan hands the analyzer a route with the empty path, from a document
\* that also has a key that is no verb and a verb key not in lower case
C9_Witness ==
    /\ InScan
    /\ pc = "analyze"
    /\ \E r \in 1..Len(ScanRoutes) : DictGet(ScanRoutes[r], "path", None) = PyStr("")
    /\ OtherEntries(PathsOf(swagger_data)) # {}
    /\ \E c \in VerbEntries(PathsOf(swagger_data)) :
          LET key == PathsOf(swagger_data).v[c[1]][2].v[c[2]][1] IN key # lower(key)

---------------------------------------------------------------------------
(* C10 *)

\* the loaded value is no object, or an object without "paths"
LacksPaths(data) == IF IsDict(data) THEN ~HasKey(data, "paths") ELSE TRUE

\* C10 as stated: on a document that is no valid structured data or lacks
\* "paths" (a JSON value that is no object, an empty or never-loaded
\* document) fetch_swagger and extract_endpoints raise nothing and
\* extract_endpoints returns the empty list.
C10_MalformedDocumentGivesNoRoutes ==
    LacksPaths(swagger_data) =>
        /\ pc # "extract_raised"
        /\ pc = "extracted" => endpoints = <<>>

\* what does hold: the same for the values that are false in Python (None,
\* false, 0, "", [], {}) and for the objects without "paths"
C10_FalsyOrObjectGivesNoRoutes ==
    (LacksPaths(swagger_data) /\ (IsDict(swagger_data) \/ ~Truthy(swagger_data))) =>
        /\ pc # "extract_raised"
        /\ pc = "extracted" => endpoints = <<>>

---------------------------------------------------------------------------
(* C11 *)

\* a call of analyze_endpoint or analyze_global has ended
CallEnded == llm_result # NoCall

\* a record with an error field
IsErrorObject(x) == IsDict(x) /\ HasKey(x, "error")

\* json.loads takes the text
IsJSON(text) == json_loads(PyStr(text)).exc = "none"

\* the brace span of a text: from its first "{" to its last "}", when the
\* first comes before the last
BraceSpans(text) ==
    {span \in (1..Len(text)) \X (1..Len(text)) :
        /\ span[1] < span[2]
        /\ CharAt(text, span[1]) = "{"
        /\ CharAt(text, span[2]) = "}"
        /\ \A k \in 1..(span[1] - 1) : CharAt(text, k) # "{"
        /\ \A k \in (span[2] + 1)..Len(text) : CharAt(text, k) # "}"}

\* the brace span of the text is JSON
SpanIsJSON(text) ==
    \E span \in BraceSpans(text) : IsJSON(SubSeq(text, span[1], span[2]))

\* the content is no text, or a text that is JSON neither whole nor in its
\* brace span
NoJSONIn(value) == IsStr(value) => (~IsJSON(value.v) /\ ~SpanIsJSON(value.v))

ConnectionFailed(response) == response.error # "none"

\* a status outside 200..299
NonSuccessStatus(response) ==
    response.error = "none" /\ response.status \notin 200..299

\* a status of the client-error or server-error class
ErrorStatus(response) ==
    response.error = "none" /\ response.status \in 400..599

BodyNotJSON(response) == response.error = "none" /\ ~IsJSON(response.body)

\* no call of analyze_endpoint or analyze_global ends with an exception
LLMNeverRaises == llm_pc # "raised" /\ (CallEnded => llm_result.exc = "none")

\* each failure ends the call with an error object; bad_status says whether
\* the status of the reply counts as a failure
FailureGivesErrorObject(bad_status) ==
    (CallEnded /\ llm_result.exc = "none") =>
        /\ ConnectionFailed(reply) => IsErrorObject(llm_result.ret)
        /\ bad_status => IsErrorObject(llm_result.ret)
        /\ BodyNotJSON(reply) => IsErrorObject(llm_result.ret)
        /\ (stages # <<>> /\ NoJSONIn(llm_content)) => IsErrorObject(llm_result.ret)

\* the three stages are gone through in their order, and the call ends at
\* the first that succeeds: with the value of the whole text, else with the
\* value of the brace span, else with the error object that holds the text
ChainInOrder ==
    /\ \E n \in 0..3 : stages = SubSeq(<<"strict", "regex", "error">>, 1, n)
    /\ (CallEnded /\ llm_result.exc = "none" /\ IsStr(llm_content)) =>
          /\ Len(stages) = 1 =>
                /\ IsJSON(llm_content.v)
                /\ llm_result.ret = json_loads(llm_content).ret
          /\ Len(stages) = 2 =>
                /\ ~IsJSON(llm_content.v)
                /\ \E span \in BraceSpans(llm_content.v) :
                      LET group == PyStr(SubSeq(llm_content.v, span[1], span[2]))
                      IN  /\ IsJSON(group.v)
                          /\ llm_result.ret = json_loads(group).ret
          /\ Len(stages) = 3 =>
                /\ ~IsJSON(llm_content.v)
                /\ ~SpanIsJSON(llm_content.v)
                /\ IsErrorObject(llm_result.ret)
                /\ DictGet(llm_result.ret, "raw", None) = llm_content

===========================================================================
